---- MODULE Spec2Model ----
(***************************************************************************)
(* Verification model of thrumor_ode.py: the tumour/immune ODE explorer.   *)
(*                                                                         *)
(* Four specifications share the operators below.                          *)
(*   SpecCore  the pure numerical core: runge_kutta_4 stepped sample by    *)
(*             sample over tumor_immune_model, then the error analysis of  *)
(*             update_plot (np.interp, MAE and its two normalisations)     *)
(*             and the tags the two displays give each entry.              *)
(*   Spec      the interactive session of the entry fields with ПРИМЕНИТЬ  *)
(*             (update_plot) and СБРОС (reset_parameters), each handler    *)
(*             taken as one atomic step.                                   *)
(*   SpecBoxes the same session with the four dataset checkboxes toggled   *)
(*             freely and K the only field edited.                         *)
(*   SpecWindow the session with the detail window opened and closed.     *)
(*                                                                         *)
(* Numbers.  Python floats are modelled by exact rationals <<n, d>> with   *)
(* d > 0 in lowest terms; <<0, 0>> stands for every non-finite float       *)
(* (inf, -inf, nan), which numpy produces instead of raising when a        *)
(* numpy float is divided by zero.  Binary rounding and overflow of floats *)
(* are outside the model.                                                  *)
(*                                                                         *)
(* Text.  The content of an entry field is a sequence of one-character     *)
(* strings.                                                                *)
(***************************************************************************)
EXTENDS Integers, Sequences, FiniteSets, TLC

\* ------------------------------------------------------------------------
\* Float arithmetic as exact rationals
\* ------------------------------------------------------------------------

NonFinite == <<0, 0>>

IsFinite(x) == x[2] # 0

Abs(n) == IF n < 0 THEN -n ELSE n

RECURSIVE GCD(_, _)
GCD(a, b) == IF b = 0 THEN a ELSE GCD(b, a % b)

\* n/d in lowest terms with a positive denominator (d # 0).
Rat(n, d) ==
  LET g == GCD(Abs(n), Abs(d))
      sg == IF d < 0 THEN -1 ELSE 1
  IN  <<sg * (n \div g), sg * (d \div g)>>

FromInt(n) == <<n, 1>>

RNeg(x) == IF IsFinite(x) THEN <<-x[1], x[2]>> ELSE NonFinite

RAdd(x, y) ==
  IF ~IsFinite(x) \/ ~IsFinite(y) THEN NonFinite
  ELSE LET g == GCD(x[2], y[2])
       IN  Rat(x[1] * (y[2] \div g) + y[1] * (x[2] \div g), (x[2] \div g) * y[2])

RSub(x, y) == RAdd(x, RNeg(y))

RMul(x, y) ==
  IF ~IsFinite(x) \/ ~IsFinite(y) THEN NonFinite
  ELSE LET g1 == GCD(Abs(x[1]), y[2])
           g2 == GCD(Abs(y[1]), x[2])
       IN  <<(x[1] \div g1) * (y[1] \div g2), (x[2] \div g2) * (y[2] \div g1)>>

\* numpy float division: a zero divisor gives inf or nan, not an exception.
RDiv(x, y) ==
  IF ~IsFinite(x) \/ ~IsFinite(y) \/ y[1] = 0 THEN NonFinite
  ELSE RMul(x, Rat(y[2], y[1]))

\* Comparisons; every comparison with nan is False.
RLt(x, y) == IsFinite(x) /\ IsFinite(y) /\ x[1] * y[2] < y[1] * x[2]

RLe(x, y) == IsFinite(x) /\ IsFinite(y) /\ x[1] * y[2] <= y[1] * x[2]

RAbs(x) == IF IsFinite(x) THEN <<Abs(x[1]), x[2]>> ELSE NonFinite

\* math.ceil / math.floor of a finite rational, as integers.
CeilInt(x) == -((-x[1]) \div x[2])

FloorInt(x) == x[1] \div x[2]

RECURSIVE SumSeq(_)
SumSeq(s) == IF s = <<>> THEN FromInt(0) ELSE RAdd(Head(s), SumSeq(Tail(s)))

\* np.mean of a non-empty array.
Mean(s) == RDiv(SumSeq(s), FromInt(Len(s)))

\* max() of a non-empty sequence of integers.
MaxOf(s) == CHOOSE m \in {s[k] : k \in 1..Len(s)} : \A k \in 1..Len(s) : s[k] <= m

\* ------------------------------------------------------------------------
\* The compiled-in experimental data
\* ------------------------------------------------------------------------

exp_days == <<0, 3, 6, 9, 12, 15, 18>>

exp_days_pbs == <<0, 3, 6, 9, 12, 15, 18>>

exp_tumor_pbs == <<100, 166, 272, 414, 630, 892, 1550>>

exp_tumor_dc_cik == <<100, 110, 130, 190, 260, 410, 710>>

exp_tumor_cik == <<100, 140, 210, 300, 470, 680, 1130>>

exp_tumor_ag_dc_cik == <<100, 120, 130, 170, 240, 340, 480>>

\* The dataset labels, in the order update_plot handles them.
Groups == {"PBS", "DC-CIK", "CIK", "AG-DC-CIK"}

DaysOf(g) == IF g = "PBS" THEN exp_days_pbs ELSE exp_days

TumorOf(g) ==
  CASE g = "PBS" -> exp_tumor_pbs
    [] g = "DC-CIK" -> exp_tumor_dc_cik
    [] g = "CIK" -> exp_tumor_cik
    [] g = "AG-DC-CIK" -> exp_tumor_ag_dc_cik

IntsToRats(s) == [k \in 1..Len(s) |-> FromInt(s[k])]

\* ------------------------------------------------------------------------
\* ODE model and the time grid
\* ------------------------------------------------------------------------

\* tumor_immune_model(t, V, I, r, K, p, s, alpha, d): the pair <<dV_dt, dI_dt>>.
\* params = <<r, K, p, s, alpha, d>>.
tumor_immune_model(t, V, I, params) ==
  LET r == params[1]
      K == params[2]
      p == params[3]
      s == params[4]
      alpha == params[5]
      d == params[6]
      dV_dt == RSub(RMul(RMul(r, V), RSub(FromInt(1), RDiv(V, K))), RMul(RMul(p, I), V))
      dI_dt == RSub(RAdd(s, RMul(RMul(alpha, I), V)), RMul(d, I))
  IN  <<dV_dt, dI_dt>>

\* A length that truncates where np.arange rounds up.
ArangeLenTruncated(start, stop, step) ==
  LET n == FloorInt(RDiv(RSub(stop, start), step))
  IN  IF n > 0 THEN n ELSE 0

\* len(np.arange(start, stop, step)) for step # 0: ceil((stop - start)/step),
\* and an empty array when that is not positive.
ArangeLen(start, stop, step) ==
  LET n == CeilInt(RDiv(RSub(stop, start), step))
  IN  IF n > 0 THEN n ELSE 0

\* np.arange(start, stop, step): element k (1-based) is start + (k-1)*step.
Arange(start, stop, step) ==
  [k \in 1..ArangeLen(start, stop, step) |-> RAdd(start, RMul(FromInt(k - 1), step))]

\* A grid that stops short of t_end: np.arange(t0, t_end, h).
TimeGridExclusive(t0, t_end, h) == Arange(t0, t_end, h)

\* The time grid of runge_kutta_4 (line 42).
TimeGrid(t0, t_end, h) == Arange(t0, RAdd(t_end, h), h)

\* One stage of the step (lines 50-53): h times the right-hand side at
\* <<t, V, I>>, the pair <<k_V, k_I>>.
RK4Stage(t, V, I, h, params) ==
  LET f == tumor_immune_model(t, V, I, params)
  IN  <<RMul(h, f[1]), RMul(h, f[2])>>

\* A sample that is the weighted increment alone, without the previous one.
RK4IncrementOnly(x, k1, k2, k3, k4) ==
  RDiv(RAdd(RAdd(RAdd(k1, RMul(FromInt(2), k2)), RMul(FromInt(2), k3)), k4), FromInt(6))

\* A sample advanced by the four stages with equal weights.
RK4SampleEqualWeights(x, k1, k2, k3, k4) ==
  RAdd(x, RDiv(RAdd(RAdd(RAdd(k1, k2), k3), k4), FromInt(6)))

\* Lines 55-56: x[i] = x[i-1] + (k1 + 2*k2 + 2*k3 + k4) / 6.
RK4Sample(x, k1, k2, k3, k4) ==
  RAdd(x, RDiv(RAdd(RAdd(RAdd(k1, RMul(FromInt(2), k2)), RMul(FromInt(2), k3)), k4),
               FromInt(6)))

\* ------------------------------------------------------------------------
\* Error analysis (update_plot, lines 208-266)
\* ------------------------------------------------------------------------

\* The largest k with xp[k] <= x, for xp[1] <= x.
RECURSIVE LastLe(_, _, _)
LastLe(x, xp, k) ==
  IF k < Len(xp) /\ RLe(xp[k + 1], x) THEN LastLe(x, xp, k + 1) ELSE k

\* np.interp(x, xp, fp) at one query point: clamped to the end values
\* outside the grid, the stored value at a knot, linear in between.
Interp(x, xp, fp) ==
  IF RLt(x, xp[1]) THEN fp[1]
  ELSE IF RLt(xp[Len(xp)], x) THEN fp[Len(fp)]
  ELSE LET j == LastLe(x, xp, 1)
       IN  IF j = Len(xp) \/ x = xp[j] THEN fp[j]
           ELSE LET slope == RDiv(RSub(fp[j + 1], fp[j]), RSub(xp[j + 1], xp[j]))
                IN  RAdd(RMul(slope, RSub(x, xp[j])), fp[j])

\* An entry whose MAE-percent is taken against the dataset's maximum.
ErrorEntryByMax(g, t_vals, V_vals, K) ==
  LET days == IntsToRats(DaysOf(g))
      tumor == IntsToRats(TumorOf(g))
      model == [k \in 1..Len(days) |-> Interp(days[k], t_vals, V_vals)]
      errors == [k \in 1..Len(days) |-> RAbs(RSub(model[k], tumor[k]))]
      mae == Mean(errors)
      mae_percent == IF MaxOf(TumorOf(g)) > 0
                     THEN RDiv(RMul(FromInt(100), mae), FromInt(MaxOf(TumorOf(g))))
                     ELSE FromInt(0)
      mae_normalized == RDiv(RMul(FromInt(100), mae), K)
  IN  [mae |-> mae, mae_percent |-> mae_percent,
       mae_normalized |-> mae_normalized, max_value |-> MaxOf(TumorOf(g))]

\* The record update_plot stores under a dataset's label.
ErrorEntry(g, t_vals, V_vals, K) ==
  LET days == IntsToRats(DaysOf(g))
      tumor == IntsToRats(TumorOf(g))
      model == [k \in 1..Len(days) |-> Interp(days[k], t_vals, V_vals)]
      errors == [k \in 1..Len(days) |-> RAbs(RSub(model[k], tumor[k]))]
      mae == Mean(errors)
      mae_percent == IF RLt(FromInt(0), Mean(tumor))
                     THEN RDiv(RMul(FromInt(100), mae), Mean(tumor))
                     ELSE FromInt(0)
      mae_normalized == RDiv(RMul(FromInt(100), mae), K)
  IN  [mae |-> mae, mae_percent |-> mae_percent,
       mae_normalized |-> mae_normalized, max_value |-> MaxOf(TumorOf(g))]

\* The integer nearest to a finite rational, a tie going to the even one.
RoundHalfEven(x) ==
  LET f == FloorInt(x)
      rest == x[1] % x[2]
  IN  IF rest < x[2] - rest THEN f
      ELSE IF rest > x[2] - rest THEN f + 1
      ELSE IF f % 2 = 0 THEN f ELSE f + 1

\* f"{x:.1f}": the text of x with one decimal, kept as its number of
\* tenths; "nan" for a non-finite x.
Format1f(x) ==
  IF IsFinite(x) THEN <<"tenths", RoundHalfEven(RMul(x, FromInt(10)))>> ELSE <<"nan">>

\* float() of such a text (lines 110-111).
FloatOfFormatted(txt) == IF txt[1] = "tenths" THEN Rat(txt[2], 10) ELSE NonFinite

\* The accuracy class of a MAE/K percentage (lines 113-124 and 305-312).
AccuracyClass(x) ==
  IF RLt(x, FromInt(5)) THEN "excellent"
  ELSE IF RLe(FromInt(5), x) /\ RLt(x, FromInt(10)) THEN "good"
  ELSE IF RLe(FromInt(10), x) /\ RLt(x, FromInt(15)) THEN "acceptable"
  ELSE "poor"

\* The tag of an entry's line in the summary panel (lines 305-315), from
\* the stored values.
SummaryTag(data) ==
  [class |-> AccuracyClass(data.mae_normalized),
   high_error |-> RLt(FromInt(20), data.mae_percent)]

\* The tags of an entry's row in the detail table (lines 102-128), from
\* the texts of the row read back.
DetailTag(data) ==
  [class |-> AccuracyClass(FloatOfFormatted(Format1f(data.mae_normalized))),
   high_error |-> RLt(FromInt(20), FloatOfFormatted(Format1f(data.mae_percent)))]

\* mae_data as update_plot builds it for the selected datasets.
ErrorReport(shown, t_vals, V_vals, K) ==
  [g \in shown |-> ErrorEntry(g, t_vals, V_vals, K)]

\* ------------------------------------------------------------------------
\* Entry text: validate_input and float()
\* ------------------------------------------------------------------------

Digits == {"0", "1", "2", "3", "4", "5", "6", "7", "8", "9"}

DigitVal(c) ==
  CASE c = "0" -> 0 [] c = "1" -> 1 [] c = "2" -> 2 [] c = "3" -> 3 [] c = "4" -> 4
    [] c = "5" -> 5 [] c = "6" -> 6 [] c = "7" -> 7 [] c = "8" -> 8 [] c = "9" -> 9

\* str.isdigit(): at least one character, all of them digits.
IsDigit(s) == Len(s) > 0 /\ \A k \in 1..Len(s) : s[k] \in Digits

\* str.replace(c, "", 1): s without its first occurrence of c.
RECURSIVE ReplaceFirst(_, _)
ReplaceFirst(s, c) ==
  IF s = <<>> THEN <<>>
  ELSE IF Head(s) = c THEN Tail(s)
  ELSE <<Head(s)>> \o ReplaceFirst(Tail(s), c)

\* validate_input(value), the validatecommand of every entry field.
validate_input(value) ==
  IsDigit(ReplaceFirst(ReplaceFirst(value, "."), "-")) \/ value = <<>>

RECURSIVE Count(_, _)
Count(s, c) ==
  IF s = <<>> THEN 0 ELSE (IF Head(s) = c THEN 1 ELSE 0) + Count(Tail(s), c)

\* The text after an optional leading sign.
Unsigned(s) == IF s # <<>> /\ Head(s) = "-" THEN Tail(s) ELSE s

\* float(text) succeeds: an optional sign, then digits with at most one
\* decimal point and at least one digit.  Anything else raises ValueError.
FloatOK(s) ==
  LET u == Unsigned(s)
  IN  /\ \A k \in 1..Len(u) : u[k] \in Digits \cup {"."}
      /\ Count(u, ".") <= 1
      /\ \E k \in 1..Len(u) : u[k] \in Digits

RECURSIVE IntOf(_)
IntOf(ds) ==
  IF ds = <<>> THEN 0 ELSE 10 * IntOf(SubSeq(ds, 1, Len(ds) - 1)) + DigitVal(ds[Len(ds)])

RECURSIVE Pow10(_)
Pow10(n) == IF n = 0 THEN 1 ELSE 10 * Pow10(n - 1)

\* The number of characters after the decimal point.
FracLen(u) ==
  IF Count(u, ".") = 0 THEN 0
  ELSE Len(u) - (CHOOSE k \in 1..Len(u) : u[k] = ".")

\* float(text), for a text with FloatOK.
FloatOf(s) ==
  LET u == Unsigned(s)
      mag == Rat(IntOf(ReplaceFirst(u, ".")), Pow10(FracLen(u)))
  IN  IF s # <<>> /\ Head(s) = "-" THEN RNeg(mag) ELSE mag

\* ------------------------------------------------------------------------
\* State
\* ------------------------------------------------------------------------

VARIABLES
  \* the numerical core, one call of runge_kutta_4 followed by the analysis
  pc,          \* "call", "loop", "returned", "raised", "analysed",
               \* "summarised", "detailed", "idle"
  args,        \* the arguments of the call: params, V0, I0, t0, t_end, h
  t_values,    \* the time grid
  V_values,    \* tumour volume per grid point
  I_values,    \* immune cell count per grid point
  i,           \* the loop index of runge_kutta_4 (0-based, as in the source)
  exc,         \* the exception the call raised, or "none"
  shown,       \* the datasets the analysis was asked for
  mae_data,    \* the error report built from the trajectory
  summary_tags, \* the tag of each line of the summary panel
  detail_tags, \* the tags of each row of the detail table
  \* the interactive session
  entry,       \* the text of each of the twelve entry fields
  show,        \* the four dataset checkboxes (show_pbs, show_dc_cik, ...)
  lastAction,  \* the last user action: "update_plot", "reset_parameters",
               \* "edit", "toggle", "show_mae_window" or "close"
  outcome,     \* how that action ended: "ok" or the exception it raised
  rkCalls,     \* the calls of runge_kutta_4 that action made
  rkReturns,   \* those of them that returned a trajectory
  rkArgs,      \* the arguments of the most recent call of runge_kutta_4
  axes,        \* what the plot axes hold: the run drawn, and whether
               \* update_plot got past the tick set-up
  mae_built,   \* the mae_data that action built, if it built one
  mae_frame,   \* root.mae_frame: the summary frame and the mae_data it shows
  mae_window   \* root.mae_window: the detail window and the mae_data whose
               \* rows it shows

coreVars == <<pc, args, t_values, V_values, I_values, i, exc, shown, mae_data,
              summary_tags, detail_tags>>

guiVars == <<entry, show, lastAction, outcome, rkCalls, rkReturns, rkArgs, axes,
             mae_built, mae_frame, mae_window>>

vars == <<coreVars, guiVars>>

\* ------------------------------------------------------------------------
\* The entry fields
\* ------------------------------------------------------------------------

\* default_values (lines 413-420), initial_values (442-447), display_params.
ParamNames == <<"r", "K", "p", "s", "alpha", "d">>

InitialNames == <<"V0", "I0", "t_end", "h">>

DisplayNames == <<"time_step", "tumor_step">>

Range(q) == {q[k] : k \in 1..Len(q)}

FieldNames == Range(ParamNames) \cup Range(InitialNames) \cup Range(DisplayNames)

\* The text each field is created with.
DefaultText(f) ==
  CASE f = "r" -> <<"0", ".", "2", "0", "0">>
    [] f = "K" -> <<"2", "5", "0", "0">>
    [] f = "p" -> <<"0", ".", "0", "1">>
    [] f = "s" -> <<"5">>
    [] f = "alpha" -> <<"0", ".", "0", "0", "1">>
    [] f = "d" -> <<"0", ".", "1">>
    [] f = "V0" -> <<"1", "0", "0">>
    [] f = "I0" -> <<"1", "0">>
    [] f = "t_end" -> <<"2", "0">>
    [] f = "h" -> <<"0", ".", "5">>
    [] f = "time_step" -> <<"3">>
    [] f = "tumor_step" -> <<"5", "0", "0">>

\* A reset that restores the model parameters and the display steps but
\* leaves the initial-condition fields as they are.
ResetTextParamsOnly(f, old) ==
  CASE f \in Range(ParamNames) -> DefaultText(f)
    [] f \in Range(InitialNames) -> old
    [] f = "time_step" -> <<"3">>
    [] f = "tumor_step" -> <<"5", "0", "0">>

\* The text reset_parameters leaves in field f, whose text was old.
ResetText(f, old) ==
  CASE f \in Range(ParamNames) \cup Range(InitialNames) -> DefaultText(f)
    [] f = "time_step" -> <<"3">>
    [] f = "tumor_step" -> <<"5", "0", "0">>

\* The arguments update_plot passes to runge_kutta_4 (lines 170-174, 181).
ArgsOf(e) ==
  [params |-> [k \in 1..6 |-> FloatOf(e[ParamNames[k]])],
   V0 |-> FloatOf(e["V0"]), I0 |-> FloatOf(e["I0"]),
   t0 |-> FromInt(0), t_end |-> FloatOf(e["t_end"]), h |-> FloatOf(e["h"])]

\* A report with an entry for every dataset, selected or not.
ReportOfEveryGroup(sel, a, K) ==
  [g \in Groups |-> [dataset |-> g, trajectory |-> a, K |-> K]]

\* mae_data of update_plot by what each entry is computed from: the dataset,
\* the trajectory (named by the arguments of the run that produced it) and
\* K.  The four numbers of an entry are ErrorEntry of these, which SpecCore
\* evaluates.
ReportOf(sel, a, K) ==
  [g \in sel |-> [dataset |-> g, trajectory |-> a, K |-> K]]

NoReport == [made |-> FALSE, data |-> <<>>]

\* root has no mae_window, or the window was destroyed.
NoWindow == [exists |-> FALSE, data |-> <<>>]

\* The selected datasets.
Selected(sh) == {g \in Groups : sh[g]}

GuiIdle ==
  /\ entry = <<>>
  /\ show = <<>>
  /\ lastAction = "none"
  /\ outcome = "none"
  /\ rkCalls = 0
  /\ rkReturns = 0
  /\ rkArgs = <<>>
  /\ axes = <<>>
  /\ mae_built = <<>>
  /\ mae_frame = <<>>
  /\ mae_window = <<>>

\* ------------------------------------------------------------------------
\* SpecCore: runge_kutta_4 and the error analysis on bounded inputs
\* ------------------------------------------------------------------------

Zero == FromInt(0)

One == FromInt(1)

\* Start times, end times and step sizes the core is exercised with; the
\* step sizes include 0 and a negative one, the end times one below t0.
CoreT0 == {Zero, One}

CoreTEnd == {Zero, One, FromInt(2), FromInt(3)}

CoreH == {FromInt(-1), Zero, One, Rat(3, 2), FromInt(2)}

\* Parameter tuples <<r, K, p, s, alpha, d>>.  With every rate zero the
\* carrying capacity ranges over positive, negative and zero values.
ZeroRateParams ==
  {<<Zero, K, Zero, Zero, Zero, Zero>> : K \in {One, FromInt(-1), FromInt(2500), Zero}}

\* One rate switched on at a time: influx s, decay d, kill rate p, and
\* activation alpha.
LinearParams ==
  {<<Zero, One, Zero, One, Zero, Zero>>,
   <<Zero, One, Zero, Zero, Zero, One>>,
   <<Zero, FromInt(2500), One, Zero, Zero, Zero>>}

\* Logistic growth, r = 1 and K = 1; exact arithmetic stays within TLC's
\* integers for unit steps only.
LogisticParams == {<<One, One, Zero, Zero, Zero, Zero>>}

NearLimitK == {9554, 9400, 4760, 3175}

CoreInputs ==
  [params : ZeroRateParams, V0 : {FromInt(2), FromInt(100)}, I0 : {One, FromInt(10)},
   t0 : CoreT0, t_end : CoreTEnd, h : CoreH]
  \cup
  [params : LinearParams, V0 : {FromInt(2)}, I0 : {One},
   t0 : CoreT0, t_end : CoreTEnd, h : CoreH]
  \cup
  [params : LogisticParams, V0 : {FromInt(2)}, I0 : {One},
   t0 : CoreT0, t_end : CoreTEnd, h : {FromInt(-1), Zero, One}]
  \cup
  \* the grid of the start-up run: t0 = 0, t_end = 20, h = 0.5
  [params : {<<Zero, FromInt(2500), Zero, Zero, Zero, Zero>>}, V0 : {FromInt(100)},
   I0 : {FromInt(10)}, t0 : {Zero}, t_end : {FromInt(20)}, h : {Rat(1, 2)}]
  \cup
  \* carrying capacities that bring MAE/K of a constant trajectory close to
  \* the class limits 5, 10 and 15
  [params : {<<Zero, FromInt(K), Zero, Zero, Zero, Zero>> : K \in NearLimitK},
   V0 : {FromInt(100)}, I0 : {FromInt(10)}, t0 : {Zero}, t_end : {FromInt(2)}, h : {One}]

CoreInit ==
  /\ pc = "call"
  /\ args \in CoreInputs
  /\ t_values = <<>>
  /\ V_values = <<>>
  /\ I_values = <<>>
  /\ i = 0
  /\ exc = "none"
  /\ shown = {}
  /\ mae_data = <<>>
  /\ summary_tags = <<>>
  /\ detail_tags = <<>>
  /\ GuiIdle

\* Lines 42-44: the grid, the two zero arrays, the initial condition.
\* np.arange raises on a zero step; storing into an empty array raises.
RKSetup ==
  /\ pc = "call"
  /\ LET grid == TimeGrid(args.t0, args.t_end, args.h)
         n == Len(grid)
     IN  IF args.h = Zero
         THEN /\ pc' = "raised"
              /\ exc' = "ZeroDivisionError"
              /\ UNCHANGED <<t_values, V_values, I_values>>
         ELSE IF n = 0
         THEN /\ pc' = "raised"
              /\ exc' = "IndexError"
              /\ t_values' = grid
              /\ V_values' = <<>>
              /\ I_values' = <<>>
         ELSE /\ pc' = "loop"
              /\ exc' = "none"
              /\ t_values' = grid
              /\ V_values' = [k \in 1..n |-> IF k = 1 THEN args.V0 ELSE Zero]
              /\ I_values' = [k \in 1..n |-> IF k = 1 THEN args.I0 ELSE Zero]
  /\ i' = 1
  /\ UNCHANGED <<args, shown, mae_data, summary_tags, detail_tags, guiVars>>

\* Lines 47-56: one iteration, sample i from sample i-1 (0-based indices);
\* the four stages are computed one after the other.
RKLoop ==
  /\ pc = "loop"
  /\ i < Len(t_values)
  /\ \E t \in {t_values[i]}, V \in {V_values[i]}, I \in {I_values[i]},
        half \in {RDiv(args.h, FromInt(2))} :
     \E k1 \in {RK4Stage(t, V, I, args.h, args.params)} :
     \E k2 \in {RK4Stage(RAdd(t, half), RAdd(V, RDiv(k1[1], FromInt(2))),
                         RAdd(I, RDiv(k1[2], FromInt(2))), args.h, args.params)} :
     \E k3 \in {RK4Stage(RAdd(t, half), RAdd(V, RDiv(k2[1], FromInt(2))),
                         RAdd(I, RDiv(k2[2], FromInt(2))), args.h, args.params)} :
     \E k4 \in {RK4Stage(RAdd(t, args.h), RAdd(V, k3[1]), RAdd(I, k3[2]),
                         args.h, args.params)} :
       /\ V_values' = [V_values EXCEPT ![i + 1] = RK4Sample(V, k1[1], k2[1], k3[1], k4[1])]
       /\ I_values' = [I_values EXCEPT ![i + 1] = RK4Sample(I, k1[2], k2[2], k3[2], k4[2])]
  /\ i' = i + 1
  /\ UNCHANGED <<pc, args, t_values, exc, shown, mae_data, summary_tags, detail_tags,
               guiVars>>

\* Line 58.
RKReturn ==
  /\ pc = "loop"
  /\ i >= Len(t_values)
  /\ pc' = "returned"
  /\ UNCHANGED <<args, t_values, V_values, I_values, i, exc, shown, mae_data,
               summary_tags, detail_tags, guiVars>>

\* Lines 208-266 on the returned trajectory, for any selection of datasets.
Analyse ==
  /\ pc = "returned"
  /\ \E sel \in SUBSET Groups :
       /\ shown' = sel
       /\ mae_data' = ErrorReport(sel, t_values, V_values, args.params[2])
  /\ pc' = "analysed"
  /\ UNCHANGED <<args, t_values, V_values, I_values, i, exc, summary_tags, detail_tags,
               guiVars>>

\* Lines 289-317: the summary panel, one tagged line per entry, built when
\* mae_data is not empty.
Summarise ==
  /\ pc = "analysed"
  /\ DOMAIN mae_data # {}
  /\ summary_tags' = [g \in DOMAIN mae_data |-> SummaryTag(mae_data[g])]
  /\ pc' = "summarised"
  /\ UNCHANGED <<args, t_values, V_values, I_values, i, exc, shown, mae_data, detail_tags,
               guiVars>>

\* show_mae_window, lines 99-128, from the button of the summary panel: one
\* tagged row per entry.
Detail ==
  /\ pc = "summarised"
  /\ detail_tags' = [g \in DOMAIN mae_data |-> DetailTag(mae_data[g])]
  /\ pc' = "detailed"
  /\ UNCHANGED <<args, t_values, V_values, I_values, i, exc, shown, mae_data, summary_tags,
               guiVars>>

CoreNext == RKSetup \/ RKLoop \/ RKReturn \/ Analyse \/ Summarise \/ Detail

SpecCore == CoreInit /\ [][CoreNext]_vars
\* ------------------------------------------------------------------------
\* Spec: the interactive session
\* ------------------------------------------------------------------------

\* At most this many fields differ from their default text at a time.
MaxEdited == 1

T0 == <<"0">>

\* The texts a user tries to put into field f.  validate_input decides
\* which of them the field takes.  With each text that converts, and the
\* other fields at their defaults, the samples of the run stay within the
\* range of a float (K = -2500 does; K = -1 would not).
FieldTexts(f) ==
  CASE f = "r" -> {<<>>, <<"1", "-", "2">>, <<"1", "a">>}
    [] f = "K" -> {T0, <<"-", "2", "5", "0", "0">>}
    [] f = "I0" -> {<<"5", ".">>}
    [] f = "t_end" -> {T0}
    [] f = "h" -> {T0, <<"-", "1">>, <<"-", "3", "0">>}
    [] f = "time_step" -> {T0}
    [] f = "tumor_step" -> {T0}
    [] OTHER -> {}

EditedFields == {f \in FieldNames : FieldTexts(f) # {}}

EditChoices == [f \in EditedFields |-> FieldTexts(f) \cup {DefaultText(f)}]

CoreIdle ==
  /\ pc = "idle"
  /\ args = <<>>
  /\ t_values = <<>>
  /\ V_values = <<>>
  /\ I_values = <<>>
  /\ i = 0
  /\ exc = "none"
  /\ shown = {}
  /\ mae_data = <<>>
  /\ summary_tags = <<>>
  /\ detail_tags = <<>>

DefaultEntry == [f \in FieldNames |-> DefaultText(f)]

\* The state once the module has run: every field at its default, every
\* dataset checkbox selected, and the first update_plot (line 573) done.
Init ==
  /\ CoreIdle
  /\ entry = DefaultEntry
  /\ show = [g \in Groups |-> TRUE]
  /\ lastAction = "update_plot"
  /\ outcome = "ok"
  /\ rkCalls = 1
  /\ rkReturns = 1
  /\ rkArgs = ArgsOf(DefaultEntry)
  /\ axes = [run |-> ArgsOf(DefaultEntry), complete |-> TRUE]
  /\ mae_built = [made |-> TRUE,
                  data |-> ReportOf(Groups, ArgsOf(DefaultEntry), FloatOf(DefaultText("K")))]
  /\ mae_frame = [exists |-> TRUE,
                  data |-> ReportOf(Groups, ArgsOf(DefaultEntry), FloatOf(DefaultText("K")))]
  /\ mae_window = NoWindow

\* What one run of update_plot does, from the fields e, the checkboxes sh
\* and the display it finds (ax, frame, the last call's arguments last).
PlotResult(e, sh, last, ax, frame) ==
  IF \E f \in FieldNames : ~FloatOK(e[f])
  THEN \* lines 170-178: float() raises before anything is called
       [outcome |-> "ValueError", rkCalls |-> 0, rkReturns |-> 0, rkArgs |-> last,
        axes |-> ax, mae_built |-> NoReport, mae_frame |-> frame]
  ELSE
  LET a == ArgsOf(e)
      time_step == FloatOf(e["time_step"])
      tumor_step == FloatOf(e["tumor_step"])
      K == FloatOf(e["K"])
      data == ReportOf(Selected(sh), a, K)
  IN  IF a.h = Zero
      THEN \* line 42: np.arange with a zero step
           [outcome |-> "ZeroDivisionError", rkCalls |-> 1, rkReturns |-> 0, rkArgs |-> a,
            axes |-> ax, mae_built |-> NoReport, mae_frame |-> frame]
      ELSE IF Len(TimeGrid(a.t0, a.t_end, a.h)) = 0
      THEN \* line 44: V_values[0] of an empty array
           [outcome |-> "IndexError", rkCalls |-> 1, rkReturns |-> 0, rkArgs |-> a,
            axes |-> ax, mae_built |-> NoReport, mae_frame |-> frame]
      ELSE IF time_step = Zero
      THEN \* line 194, after ax.clear() and the model curves
           [outcome |-> "ZeroDivisionError_xticks", rkCalls |-> 1, rkReturns |-> 1,
            rkArgs |-> a, axes |-> [run |-> a, complete |-> FALSE],
            mae_built |-> NoReport, mae_frame |-> frame]
      ELSE IF tumor_step = Zero
      THEN \* line 204
           [outcome |-> "ZeroStepError_yticks", rkCalls |-> 1, rkReturns |-> 1,
            rkArgs |-> a, axes |-> [run |-> a, complete |-> FALSE],
            mae_built |-> NoReport, mae_frame |-> frame]
      ELSE \* lines 208-356
           [outcome |-> "ok", rkCalls |-> 1, rkReturns |-> 1, rkArgs |-> a,
            axes |-> [run |-> a, complete |-> TRUE],
            mae_built |-> [made |-> TRUE, data |-> data],
            mae_frame |-> IF Selected(sh) # {}
                          THEN [exists |-> TRUE, data |-> data]
                          ELSE [exists |-> FALSE, data |-> <<>>]]

\* ПРИМЕНИТЬ: update_plot.
update_plot ==
  /\ lastAction' = "update_plot"
  /\ \E res \in {PlotResult(entry, show, rkArgs, axes, mae_frame)} :
         /\ outcome' = res.outcome
         /\ rkCalls' = res.rkCalls
         /\ rkReturns' = res.rkReturns
         /\ rkArgs' = res.rkArgs
         /\ axes' = res.axes
         /\ mae_built' = res.mae_built
         /\ mae_frame' = res.mae_frame
  /\ UNCHANGED <<entry, show, mae_window, coreVars>>

\* A reset that redraws: the fields are rewritten and update_plot is run.
reset_and_replot ==
  /\ lastAction' = "reset_parameters"
  /\ entry' = [f \in FieldNames |-> ResetText(f, entry[f])]
  /\ \E res \in {PlotResult([f \in FieldNames |-> ResetText(f, entry[f])], show,
                            rkArgs, axes, mae_frame)} :
         /\ outcome' = res.outcome
         /\ rkCalls' = res.rkCalls
         /\ rkReturns' = res.rkReturns
         /\ rkArgs' = res.rkArgs
         /\ axes' = res.axes
         /\ mae_built' = res.mae_built
         /\ mae_frame' = res.mae_frame
  /\ UNCHANGED <<show, mae_window, coreVars>>

\* СБРОС: reset_parameters.
reset_parameters ==
  /\ lastAction' = "reset_parameters"
  /\ entry' = [f \in FieldNames |-> ResetText(f, entry[f])]
  /\ outcome' = "ok"
  /\ rkCalls' = 0
  /\ rkReturns' = 0
  /\ mae_built' = NoReport
  /\ UNCHANGED <<show, rkArgs, axes, mae_frame, mae_window, coreVars>>

\* A key edit of field f proposing the text v: the field takes it only if
\* validate_input accepts it.
Edit(f, v) ==
  /\ LET e == IF validate_input(v) THEN [entry EXCEPT ![f] = v] ELSE entry
     IN  /\ Cardinality({g \in FieldNames : e[g] # DefaultEntry[g]}) <= MaxEdited
         /\ entry' = e
  /\ lastAction' = "edit"
  /\ outcome' = "ok"
  /\ rkCalls' = 0
  /\ rkReturns' = 0
  /\ mae_built' = NoReport
  /\ UNCHANGED <<show, rkArgs, axes, mae_frame, mae_window, coreVars>>

\* Clicking the checkbox of dataset g.
Toggle(g) ==
  /\ show' = [show EXCEPT ![g] = ~@]
  /\ lastAction' = "toggle"
  /\ outcome' = "ok"
  /\ rkCalls' = 0
  /\ rkReturns' = 0
  /\ mae_built' = NoReport
  /\ UNCHANGED <<entry, rkArgs, axes, mae_frame, mae_window, coreVars>>

Next ==
  \/ update_plot
  \/ reset_parameters
  \/ \E f \in DOMAIN EditChoices : \E v \in EditChoices[f] : Edit(f, v)

\* The session of typing and the two buttons, the checkboxes left as they
\* are at start-up.
Spec == Init /\ [][Next]_vars

BoxesNext ==
  \/ update_plot
  \/ reset_parameters
  \/ \E v \in EditChoices["K"] : Edit("K", v)
  \/ \E g \in Groups : Toggle(g)

\* The session of the checkboxes and the two buttons, K the only field
\* that is edited.
SpecBoxes == Init /\ [][BoxesNext]_vars

\* ------------------------------------------------------------------------
\* SpecWindow: the detail window
\* ------------------------------------------------------------------------

\* The button "Подробный анализ" of the summary frame: show_mae_window with
\* the mae_data of the update_plot that built the frame (line 330).  An
\* existing window is raised and left as it is (lines 66-69); otherwise a
\* window is built with one row per entry (lines 72-106).
show_mae_window ==
  /\ mae_frame.exists
  /\ mae_window' = IF mae_window.exists
                   THEN mae_window
                   ELSE [exists |-> TRUE, data |-> mae_frame.data]
  /\ lastAction' = "show_mae_window"
  /\ outcome' = "ok"
  /\ rkCalls' = 0
  /\ rkReturns' = 0
  /\ mae_built' = NoReport
  /\ UNCHANGED <<entry, show, rkArgs, axes, mae_frame, coreVars>>

\* The button "Закрыть" or the window manager's close: the window is
\* destroyed (lines 153-157).
close_mae_window ==
  /\ mae_window.exists
  /\ mae_window' = NoWindow
  /\ lastAction' = "close"
  /\ outcome' = "ok"
  /\ rkCalls' = 0
  /\ rkReturns' = 0
  /\ mae_built' = NoReport
  /\ UNCHANGED <<entry, show, rkArgs, axes, mae_frame, coreVars>>

\* The datasets whose checkbox is clicked in SpecWindow.
WindowGroups == {"PBS", "CIK"}

WindowNext ==
  \/ update_plot
  \/ \E v \in EditChoices["K"] : Edit("K", v)
  \/ \E g \in WindowGroups : Toggle(g)
  \/ show_mae_window
  \/ close_mae_window

\* The session of ПРИМЕНИТЬ, two of the checkboxes, the field K and the
\* detail window.
SpecWindow == Init /\ [][WindowNext]_vars
\* ------------------------------------------------------------------------
\* Properties of the numerical core (SpecCore)
\* ------------------------------------------------------------------------

\* runge_kutta_4 has returned its three arrays.
Returned == pc \in {"returned", "analysed", "summarised", "detailed"}

\* The call is within the integrator's contract: t_end >= t0 and h > 0.
InContract == RLe(args.t0, args.t_end) /\ RLt(Zero, args.h)

\* (t_end - t0) / h.
Span == RDiv(RSub(args.t_end, args.t0), args.h)

LastTime == t_values[Len(t_values)]

ZeroRates ==
  /\ \A k \in {1, 3, 4, 5, 6} : args.params[k] = Zero
  /\ args.params[2] # Zero

\* C9: with r = p = s = alpha = d = 0 and K non-zero, for h > 0, every
\* sample of the returned trajectory equals (V0, I0).
C9_ZeroRatesConstant ==
  (Returned /\ ZeroRates /\ RLt(Zero, args.h)) =>
    \A k \in 1..Len(t_values) : V_values[k] = args.V0 /\ I_values[k] = args.I0

\* A returned zero-rate trajectory of several samples.
C9_Witness ==
  /\ Returned
  /\ ZeroRates
  /\ RLt(Zero, args.h)
  /\ Len(t_values) >= 4
  /\ V_values[4] = args.V0

\* C10: for every dataset in the error report, MAE-percent is
\* 100 * MAE / mean(dataset values) when that mean is non-zero and 0 when
\* it is zero.
C10_MaePercent ==
  pc = "analysed" =>
    \A g \in DOMAIN mae_data :
      LET m == Mean(IntsToRats(TumorOf(g)))
      IN  /\ m # Zero =>
               mae_data[g].mae_percent = RDiv(RMul(FromInt(100), mae_data[g].mae), m)
          /\ m = Zero => mae_data[g].mae_percent = Zero

\* A report with a finite, non-zero MAE-percent.
C10_Witness ==
  /\ pc = "analysed"
  /\ "PBS" \in DOMAIN mae_data
  /\ IsFinite(mae_data["PBS"].mae_percent)
  /\ mae_data["PBS"].mae_percent # Zero
\* The slopes of the model at the stage state <<V, I>>:
\* dV/dt = r*V*(1 - V/K) - p*I*V and dI/dt = s + alpha*I*V - d*I.
ClassicalSlope(V, I, q) ==
  <<RSub(RMul(RMul(q[1], V), RSub(One, RDiv(V, q[2]))), RMul(RMul(q[3], I), V)),
    RSub(RAdd(q[4], RMul(RMul(q[5], I), V)), RMul(q[6], I))>>

\* x moved by the fraction c of the scaled slope h * s.
Moved(x, c, h, s) == RAdd(x, RMul(c, RMul(h, s)))

\* <<V, I>> is followed by <<Vn, In>> in one classical Runge-Kutta step of
\* size h: four slopes, each at the stage state the previous slope leads
\* to, and both components advanced by h * (s1 + 2*s2 + 2*s3 + s4) / 6.
ClassicalStep(V, I, Vn, In, h, q) ==
  \E s1 \in {ClassicalSlope(V, I, q)} :
  \E s2 \in {ClassicalSlope(Moved(V, Rat(1, 2), h, s1[1]), Moved(I, Rat(1, 2), h, s1[2]), q)} :
  \E s3 \in {ClassicalSlope(Moved(V, Rat(1, 2), h, s2[1]), Moved(I, Rat(1, 2), h, s2[2]), q)} :
  \E s4 \in {ClassicalSlope(Moved(V, One, h, s3[1]), Moved(I, One, h, s3[2]), q)} :
    /\ Vn = RAdd(V, RDiv(RMul(h, RAdd(RAdd(RAdd(s1[1], RMul(FromInt(2), s2[1])),
                                           RMul(FromInt(2), s3[1])), s4[1])), FromInt(6)))
    /\ In = RAdd(I, RDiv(RMul(h, RAdd(RAdd(RAdd(s1[2], RMul(FromInt(2), s2[2])),
                                           RMul(FromInt(2), s3[2])), s4[2])), FromInt(6)))

\* C11: every sample the loop has computed is the classical RK4 update of
\* the sample before it, with the slopes of both components taken at the
\* same stage state; the samples not yet computed are still zero.
C11_ClassicalRK4Step ==
  pc \in {"loop", "returned", "analysed", "summarised", "detailed"} =>
    /\ V_values[1] = args.V0 /\ I_values[1] = args.I0
    /\ \A k \in 2..Len(t_values) :
         IF k <= (IF pc = "loop" THEN i ELSE Len(t_values))
         THEN ClassicalStep(V_values[k - 1], I_values[k - 1], V_values[k], I_values[k],
                            args.h, args.params)
         ELSE V_values[k] = Zero /\ I_values[k] = Zero

\* A returned trajectory with the kill rate p switched on, whose tumour
\* samples move at every step.
C11_Witness ==
  /\ pc = "returned"
  /\ args.params[3] = One
  /\ Len(t_values) >= 3
  /\ V_values[2] # V_values[1]
  /\ V_values[3] # V_values[2]
\* C13: for every entry of the report the summary panel and the detail
\* table give the same accuracy class and the same high-error flag.
C13_SameTags ==
  pc = "detailed" =>
    \A g \in DOMAIN mae_data : summary_tags[g] = detail_tags[g]

\* ------------------------------------------------------------------------
\* Properties of the session (Spec, SpecBoxes)
\* ------------------------------------------------------------------------

\* The last user action pressed ПРИМЕНИТЬ and the fields converted, so
\* that runge_kutta_4 was called with the arguments rkArgs.
Applied == lastAction = "update_plot" /\ rkCalls = 1

\* C3: an Apply with a step size h <= 0 ends in an explicit
\* configuration error, without a division by zero inside and without a
\* returned trajectory.
C3_NonPositiveStepRejected ==
  (Applied /\ RLe(rkArgs.h, Zero)) =>
    /\ outcome = "ConfigurationError"
    /\ rkReturns = 0

\* C4: an Apply with carrying capacity K <= 0 ends in a configuration
\* error and builds no error report.
C4_NonPositiveKRejected ==
  (Applied /\ RLe(rkArgs.params[2], Zero)) =>
    /\ outcome = "ConfigurationError"
    /\ ~mae_built.made

\* C5: every text validate_input lets into a field converts, so an Apply
\* never fails on the conversion of a field.
C5_AcceptedTextConverts ==
  (lastAction = "update_plot" /\ \A f \in FieldNames : validate_input(entry[f]))
    => outcome # "ValueError"

\* C6 as stated: each Apply and each Reset calls runge_kutta_4 exactly
\* once, and the call has returned when the handler ends.
C6_OneRunPerAction ==
  lastAction \in {"update_plot", "reset_parameters"} => rkCalls = 1 /\ rkReturns = 1

\* C6 amended: an Apply calls runge_kutta_4 at most once, and exactly once
\* when every field converts to a number; the call has returned or raised
\* when the handler ends, and it has returned whenever the handler ends
\* without an exception.  A Reset calls runge_kutta_4 not at all.
C6_RunsPerAction ==
  /\ lastAction = "update_plot" =>
       /\ rkCalls \in {0, 1}
       /\ rkReturns \in 0..rkCalls
       /\ rkCalls = 1 <=> \A f \in FieldNames : FloatOK(entry[f])
       /\ outcome = "ok" => rkReturns = 1
  /\ lastAction = "reset_parameters" => rkCalls = 0 /\ rkReturns = 0

\* A Reset pressed after a run with an edited field was drawn.
C6_Witness ==
  /\ lastAction = "reset_parameters"
  /\ rkCalls = 0
  /\ axes.run # ArgsOf(DefaultEntry)

\* C7: the report an Apply builds has an entry for exactly the datasets
\* whose checkbox is selected at that Apply, each computed from that
\* Apply's trajectory and K.
C7_ReportOfThisApply ==
  (lastAction = "update_plot" /\ outcome = "ok") =>
    /\ mae_built.made
    /\ DOMAIN mae_built.data = {g \in Groups : show[g]}
    /\ \A g \in DOMAIN mae_built.data :
         mae_built.data[g] =
           [dataset |-> g, trajectory |-> rkArgs, K |-> FloatOf(entry["K"])]
    /\ rkArgs = ArgsOf(entry)

\* An Apply with some datasets deselected and an edited K, coming after an
\* Apply whose report, still shown in the frame, had other entries.
C7_Witness ==
  /\ lastAction = "update_plot"
  /\ outcome = "ok"
  /\ DOMAIN mae_built.data = {"PBS", "CIK"}
  /\ entry["K"] # DefaultText("K")

\* C12: whenever the detail window is open, its rows are the error report
\* of the most recent successful Apply, which is the report the summary
\* frame was last rebuilt from (empty when no dataset was selected).
C12_WindowShowsLatestReport ==
  mae_window.exists => mae_window.data = mae_frame.data

\* An Apply with no dataset selected builds an empty report.
C7_WitnessEmpty ==
  /\ lastAction = "update_plot"
  /\ outcome = "ok"
  /\ DOMAIN mae_built.data = {}

\* The default texts and the arguments of the start-up run, written out.
StartupTexts ==
  [f \in FieldNames |->
     CASE f = "r" -> <<"0", ".", "2", "0", "0">>
       [] f = "K" -> <<"2", "5", "0", "0">>
       [] f = "p" -> <<"0", ".", "0", "1">>
       [] f = "s" -> <<"5">>
       [] f = "alpha" -> <<"0", ".", "0", "0", "1">>
       [] f = "d" -> <<"0", ".", "1">>
       [] f = "V0" -> <<"1", "0", "0">>
       [] f = "I0" -> <<"1", "0">>
       [] f = "t_end" -> <<"2", "0">>
       [] f = "h" -> <<"0", ".", "5">>
       [] f = "time_step" -> <<"3">>
       [] f = "tumor_step" -> <<"5", "0", "0">>]

StartupArgs ==
  [params |-> <<Rat(1, 5), FromInt(2500), Rat(1, 100), FromInt(5), Rat(1, 1000), Rat(1, 10)>>,
   V0 |-> FromInt(100), I0 |-> FromInt(10), t0 |-> Zero,
   t_end |-> FromInt(20), h |-> Rat(1, 2)]

\* C8: after Reset the six parameter fields hold 0.200, 2500, 0.01, 5,
\* 0.001, 0.1 and the initial-condition fields 100, 10, 20, 0.5, whatever
\* they held before; an Apply that follows the Reset integrates with the
\* arguments of the start-up run.
C8_ResetRestoresDefaults ==
  [][ /\ lastAction' = "reset_parameters" =>
           \A f \in Range(ParamNames) \cup Range(InitialNames) : entry'[f] = StartupTexts[f]
      /\ (lastAction = "reset_parameters" /\ lastAction' = "update_plot") =>
           /\ rkCalls' = 1
           /\ rkReturns' = 1
           /\ rkArgs' = StartupArgs
    ]_vars

\* A Reset that put the start-up texts back after a run with an edited
\* field.
C8_Witness ==
  /\ lastAction = "reset_parameters"
  /\ entry = StartupTexts
  /\ axes.run # StartupArgs
  /\ rkArgs # StartupArgs

\* C14: an Apply that ends with an exception leaves the display as it was:
\* the axes are not cleared, and the summary frame and its report stay
\* those of the last successful Apply.
C14_FailedApplyLeavesDisplay ==
  [][ (lastAction' = "update_plot" /\ outcome' # "ok") =>
        (axes' = axes /\ mae_frame' = mae_frame) ]_vars
====
